---- MODULE Spec2Model ----
(***************************************************************************)
(* singles-in-your-area: the /ads/<image_name> endpoint.                   *)
(*                                                                         *)
(* The model covers the lazily initialised statics (CONFIG, GEOIP), the    *)
(* request handler fake_advert_handler, the location lookup                *)
(* get_city_from_ip, the render gate RENDER_SEMAPHORE around the blocking  *)
(* worker (render_location_to_image) and the compositor itself             *)
(* (render_location_to_image_sync).                                        *)
(*                                                                         *)
(* Strings that the code transforms (location, text_prefix) are sequences  *)
(* of one-character strings; Option<T> is a sequence of length 0 or 1.     *)
(***************************************************************************)
EXTENDS Integers, Sequences, FiniteSets, TLC

\* ------------------------------------------------------------------ bounds

\* number of /ads requests the HTTP layer accepts in one behaviour
NReq == 3

\* number of /ads requests in the specifications of the wait queue, where
\* requests must queue up behind one another
NQueue == 4

\* i32::MAX.  The model checker evaluates in 32-bit integers, so the signed
\* pixel-coordinate type is scaled down to 16 bits; u32 keeps its relation
\* to it (u32::MAX = 2 * i32::MAX + 1).
I32Max == 32767

\* ------------------------------------------------------- program constants

U32Max == 2 * I32Max + 1
\* Semaphore::new(2)
RenderPermits == 2

\* fallback fake location for when GeoIP lookup fails
DEFAULT_CITY == <<"y", "o", "u", "r", " ", "a", "r", "e", "a">>
PLAIN_TEXT_CONTENT_TYPE == "text/plain; charset=utf-8"

\* ------------------------------------------------------------ Option, i32

None == <<>>
Some(x) == <<x>>
IsSome(o) == o # <<>>
UnwrapOr(o, d) == IF o = <<>> THEN d ELSE o[1]

InI32(n) == -I32Max - 1 <= n /\ n <= I32Max
\* two's complement wrap-around of an out-of-range i32 result
Wrap32(n) == ((n + I32Max + 1) % (2 * (I32Max + 1))) - (I32Max + 1)
\* i32::checked_sub: None exactly on overflow of the i32 range
CheckedSub(a, b) == IF InI32(a - b) THEN Some(a - b) ELSE None
\* i32::try_from(u32)
TryFromU32(n) == IF n <= I32Max THEN Some(n) ELSE None

\* ------------------------------------------------------------------ text

LowerCase == <<"a", "e", "m", "o", "r", "u", "y">>
UpperCase == <<"A", "E", "M", "O", "R", "U", "Y">>
CharToUpper(c) ==
    IF \E i \in 1..Len(LowerCase) : LowerCase[i] = c
    THEN UpperCase[CHOOSE i \in 1..Len(LowerCase) : LowerCase[i] = c]
    ELSE c
\* str::to_uppercase
ToUppercase(s) == [i \in 1..Len(s) |-> CharToUpper(s[i])]

Rome == <<"R", "o", "m", "e">>
Roma == <<"R", "o", "m", "a">>

\* --------------------------------------------------------------- advert.rs

\* ImageOutput::format
ImageFormat(output_format) ==
    CASE output_format = "Jpeg" -> "Jpeg"
      [] output_format = "Png" -> "Png"

\* ImageOutput::mime_type
MimeTypeSwapped(output_format) ==
    CASE output_format = "Jpeg" -> "image/png"
      [] output_format = "Png" -> "image/jpeg"

mime_type(output_format) ==
    CASE output_format = "Jpeg" -> "image/jpeg"
      [] output_format = "Png" -> "image/png"

\* ImageOutput::has_alpha, as used by the compositor
OutputHasAlpha(output_format) ==
    CASE output_format = "Jpeg" -> FALSE
      [] output_format = "Png" -> TRUE

\* ColorType::has_alpha of the decoded image
ColorHasAlpha(color) == color \in {"La8", "Rgba8", "La16", "Rgba16"}

\* Advert::open: decode the image and narrow the u32 fields to i32; any
\* failure is a panic (Panicked), otherwise the Advert.
Panicked == [panic |-> TRUE]
AdvertOpen(definition) ==
    IF definition.image.file # "png"
    THEN Panicked
    ELSE IF \E f \in {"image_width", "image_height", "frames", "text_x", "text_y"} :
                TryFromU32(definition[f]) = None
    THEN Panicked
    ELSE [panic |-> FALSE,
          image |-> [color |-> definition.image.color, px |-> definition.image.px],
          image_width |-> definition.image_width,
          image_height |-> definition.image_height,
          frames |-> definition.frames,
          text_align |-> definition.text_align,
          text_x |-> definition.text_x,
          text_y |-> definition.text_y,
          text_color |-> definition.text_color,
          text_scale |-> definition.text_scale,
          text_case |-> definition.text_case,
          output_format |-> definition.output_format,
          text_prefix |-> definition.text_prefix]

\* ----------------------------------------- main.rs: the compositor (sync)

\* imageproc text_size at main.rs:254: the measured pixel width as a u32.
\* The rasteriser is external; the model measures text_scale pixels of
\* advance per character and saturates at the u32 range.
TextSize(text_scale, text) ==
    IF Len(text) * text_scale > U32Max THEN U32Max ELSE Len(text) * text_scale

CaseTransformNone(text_case, location) == location

\* main.rs:247-250
CaseTransform(text_case, location) ==
    CASE text_case = "Default" -> location
      [] text_case = "Upper" -> ToUppercase(location)

\* main.rs:253
DisplayText(advert, location) ==
    advert.text_prefix \o CaseTransform(advert.text_case, location)

\* main.rs:259-262
DrawX(text_align, text_x, text_width) ==
    CASE text_align = "Left" -> text_x
      [] text_align = "Center" -> UnwrapOr(CheckedSub(text_x, text_width \div 2), 0)

\* main.rs:265-270: the log line; x + text_width is evaluated in i32
NoLog == [line |-> "none", px |-> 0]
HitLog(x, text_width, image_width) ==
    IF Wrap32(x + text_width) > image_width
    THEN [line |-> "hit, overflowed by", px |-> Wrap32(Wrap32(x + text_width) - image_width)]
    ELSE [line |-> "hit", px |-> 0]

\* main.rs:273-276: one draw_text_mut call per frame, in increasing frame
FrameY(text_y, frame, image_height) == Wrap32(text_y + Wrap32(frame * image_height))
FrameOverflows(text_y, frame, image_height) ==
    \/ ~InI32(frame * image_height)
    \/ ~InI32(text_y + frame * image_height)
DrawCalls(advert, x, text) ==
    [k \in 1..advert.frames |->
        [x |-> x, y |-> FrameY(advert.text_y, k - 1, advert.image_height),
         text |-> text, color |-> advert.text_color, scale |-> advert.text_scale]]

\* the image codec at main.rs:285/287: PNG takes every decoded colour type,
\* JPEG only 8-bit grey and 8-bit RGB
CodecAccepts(format, color) ==
    CASE format = "Png" -> TRUE
      [] format = "Jpeg" -> color \in {"L8", "Rgb8"}

EncodedColorAlwaysRgb8(advert) == "Rgb8"

\* main.rs:281-288: the colour type handed to the encoder
EncodedColor(advert) ==
    IF ColorHasAlpha(advert.image.color) /\ ~OutputHasAlpha(advert.output_format)
    THEN "Rgb8"
    ELSE advert.image.color

NoBytes == [codec |-> "none", color |-> "none", px |-> "none", ink |-> <<>>]
RenderOut(kind, bytes, msg, log, ink) ==
    [kind |-> kind, bytes |-> bytes, msg |-> msg, log |-> log, ink |-> ink]

\* render_location_to_image_sync.  checks is the build's overflow-checks
\* setting: with it an i32 overflow panics, without it the result wraps.
render_location_to_image_sync(advert, location, checks) ==
    LET image_width == advert.image_width
        text == DisplayText(advert, location)
        measured == TextSize(advert.text_scale, text)
    IN  IF TryFromU32(measured) = None
        THEN RenderOut("Panic", NoBytes, <<"text width too large to fit in an i32">>,
                       NoLog, <<>>)
        ELSE
        LET text_width == measured
            x == DrawX(advert.text_align, advert.text_x, text_width)
        IN  IF checks /\ ~InI32(x + text_width)
            THEN RenderOut("Panic", NoBytes, <<"attempt to add with overflow">>, NoLog, <<>>)
            ELSE
            LET log == HitLog(x, text_width, image_width)
                calls == DrawCalls(advert, x, text)
                bad == {k \in 1..advert.frames :
                          FrameOverflows(advert.text_y, k - 1, advert.image_height)}
            IN  IF checks /\ bad # {}
                THEN LET first == CHOOSE k \in bad : \A j \in bad : k <= j
                     IN  RenderOut("Panic", NoBytes,
                                   <<"attempt to add or multiply with overflow">>,
                                   log, SubSeq(calls, 1, first - 1))
                ELSE IF ~CodecAccepts(ImageFormat(advert.output_format), EncodedColor(advert))
                THEN RenderOut("Err", NoBytes,
                               <<"failed to encode output image: ", "Unsupported">>,
                               log, calls)
                ELSE RenderOut("Ok",
                               [codec |-> ImageFormat(advert.output_format),
                                color |-> EncodedColor(advert),
                                px |-> advert.image.px,
                                ink |-> calls],
                               <<>>, log, calls)

\* ------------------------------------------------- main.rs: lazy statics

\* the files next to the binary: config.toml with the images it names, and
\* GeoLite2-City.mmdb
Definition(color, output_format, align, case, scale, frames, prefix) ==
    [image |-> [file |-> "png", color |-> color, px |-> "base"],
     image_width |-> 300, image_height |-> 250, frames |-> frames,
     text_align |-> align, text_x |-> 150, text_y |-> 200,
     text_color |-> <<255, 255, 255, 255>>, text_scale |-> scale,
     text_case |-> case, output_format |-> output_format, text_prefix |-> prefix]

\* "jpg" measures an eighth of the i32 range per character: a four-letter
\* city fits an i32, the nine letters of the fallback do not
GoodDefs ==
    [n \in {"png", "jpg", "raw"} |->
        CASE n = "png" -> Definition("Rgba8", "Png", "Center", "Upper", 20, 1, <<"i", "n", " ">>)
          [] n = "jpg" -> Definition("Rgba8", "Jpeg", "Left", "Default", I32Max \div 8 + 1, 2, <<>>)
          [] n = "raw" -> Definition("Rgb16", "Jpeg", "Left", "Default", 20, 1, <<>>)]
BadImageDefs ==
    [GoodDefs EXCEPT !["jpg"].image.file = "missing"]
BadRangeDefs ==
    [GoodDefs EXCEPT !["png"].frames = I32Max + 1]

DiskStates ==
    { [config |-> "ok", defs |-> GoodDefs, geoip |-> "ok"],
      [config |-> "ok", defs |-> GoodDefs, geoip |-> "missing"],
      [config |-> "missing", defs |-> GoodDefs, geoip |-> "ok"],
      [config |-> "malformed", defs |-> GoodDefs, geoip |-> "ok"],
      [config |-> "ok", defs |-> BadImageDefs, geoip |-> "ok"],
      [config |-> "ok", defs |-> BadRangeDefs, geoip |-> "ok"] }

EmptyConfig == [n \in {} |-> Panicked]

\* load_config: read and deserialize config.toml, open every advert; a
\* failure anywhere is a panic and no Config is produced
load_config(d) ==
    IF d.config # "ok"
    THEN [panic |-> TRUE, value |-> EmptyConfig]
    ELSE IF \E n \in DOMAIN d.defs : AdvertOpen(d.defs[n]).panic
    THEN [panic |-> TRUE, value |-> EmptyConfig]
    ELSE [panic |-> FALSE, value |-> [n \in DOMAIN d.defs |-> AdvertOpen(d.defs[n])]]

\* load_geoip_db
load_geoip_db(d) == [panic |-> d.geoip # "ok", value |-> EmptyConfig]

\* LazyLock: the first dereference runs the initialiser; a panic in it
\* poisons the cell and every later dereference panics again
Uninit == [state |-> "uninit", value |-> EmptyConfig]
LazyForce(cell, loaded) ==
    CASE cell.state = "init" -> cell
      [] cell.state = "poisoned" -> cell
      [] cell.state = "uninit" ->
            IF loaded.panic
            THEN [state |-> "poisoned", value |-> EmptyConfig]
            ELSE [state |-> "init", value |-> loaded.value]

\* ------------------------------------------------ main.rs: location lookup

\* outcomes of GEOIP.lookup::<geoip2::City>(addr): Err, Ok(None), or
\* Ok(Some(record)); names is the BTreeMap of localised names in key order
LookupErr == [tag |-> "Err", val |-> None]
LookupOk(record) == [tag |-> "Ok", val |-> record]
NoLookup == [tag |-> "none", val |-> None]
NameMaps ==
    { <<>>,
      <<[lang |-> "en", name |-> Rome]>>,
      <<[lang |-> "de", name |-> Roma], [lang |-> "en", name |-> Rome]>> }
CityRecords ==
    {[city |-> None]} \cup {[city |-> Some([names |-> None])]}
      \cup {[city |-> Some([names |-> Some(m)])] : m \in NameMaps}
LookupResults ==
    {LookupErr, LookupOk(None)} \cup {LookupOk(Some(c)) : c \in CityRecords}

\* BTreeMap::first_key_value().map(|(_, name)| name)
LastName(names) == IF names = <<>> THEN None ELSE Some(names[Len(names)].name)

FirstName(names) == IF names = <<>> THEN None ELSE Some(names[1].name)

CityOf(record) == record.city
NamesOf(city) == city.names

\* get_city_from_ip
get_city_from_ip(res) ==
    LET ok == IF res.tag = "Ok" THEN Some(res.val) ELSE None
        flat == IF ok = None THEN None ELSE ok[1]
        city == IF flat = None THEN None ELSE CityOf(flat[1])
        names == IF city = None THEN None ELSE NamesOf(city[1])
        name == IF names = None THEN None ELSE FirstName(names[1])
    IN  UnwrapOr(name, DEFAULT_CITY)

\* ------------------------------------------------- main.rs: the responses

NoResponse == [status |-> 0, content_type |-> "", text |-> <<>>, image |-> NoBytes]
TextResponse(status, text) ==
    [status |-> status, content_type |-> PLAIN_TEXT_CONTENT_TYPE, text |-> text,
     image |-> NoBytes]

\* Result<Vec<u8>, String>
Ok(bytes) == [ok |-> TRUE, bytes |-> bytes, msg |-> <<>>]
Err(msg) == [ok |-> FALSE, bytes |-> NoBytes, msg |-> msg]

\* {e:?} of a String
DebugFmt(msg) == <<"\"">> \o msg \o <<"\"">>

\* main.rs:227-229: the JoinHandle's output; a worker that panicked yields
\* a JoinError, replaced by an Err
JoinResultOrDefault(out) ==
    CASE out.kind = "Ok" -> Ok(out.bytes)
      [] out.kind = "Err" -> Err(out.msg)
      [] out.kind = "Panic" -> Ok(NoBytes)

JoinResult(out) ==
    CASE out.kind = "Ok" -> Ok(out.bytes)
      [] out.kind = "Err" -> Err(out.msg)
      [] out.kind = "Panic" -> Err(<<"image render task failed to complete">>)

\* fake_advert_handler, main.rs:120-136: the reply for a configured advert
\* once the image result is known
ImageReply(advert, image) ==
    IF image.ok
    THEN [status |-> 200, content_type |-> mime_type(advert.output_format),
          text |-> <<>>, image |-> image.bytes]
    ELSE TextResponse(500, image.msg)

\* main.rs:113-115
RenderedReply(advert, result) ==
    ImageReply(advert,
               IF result.ok THEN result
               ELSE Err(<<"Error encoding image: ">> \o DebugFmt(result.msg)))

\* main.rs:116-118
NoAddressReplyNotFound(advert) == TextResponse(404, <<"no remote address">>)

NoAddressReply(advert) == ImageReply(advert, Err(<<"no remote address">>))

\* main.rs:138-145
NotFoundReplyServerError == TextResponse(500, <<"resource not found on server">>)

NotFoundReply == TextResponse(404, <<"resource not found on server">>)

\* ------------------------------------------------------------------ state

VARIABLES
    disk,       \* the files the statics are loaded from
    checks,     \* TRUE iff the build panics on integer overflow
    phase,      \* main: "starting", then "serving" once the listener is bound
    CONFIG,     \* LazyLock<Config>
    GEOIP,      \* LazyLock<GeoIp>
    arrived,    \* number of /ads requests accepted so far
    pc,         \* per request: where its handler future stands
    req,        \* per request: image_name and whether a remote address exists
    lookup,     \* per request: what the GeoIP lookup returned
    location,   \* per request: the resolved location
    permits,    \* RENDER_SEMAPHORE: available permits
    waiters,    \* RENDER_SEMAPHORE: requests suspended in acquire(), in order
    holds,      \* per request: its render_permit is alive
    worker,     \* per request: the spawn_blocking task and its output
    resp        \* per request: the reply handed to the HTTP layer

vars == <<disk, checks, phase, CONFIG, GEOIP, arrived, pc, req, lookup, location,
          permits, waiters, holds, worker, resp>>

Reqs == 1..NQueue
ImageNames == {"png", "jpg", "raw", "nope"}
NoReq == [image_name |-> "", has_addr |-> FALSE]
NoOut == RenderOut("none", NoBytes, <<>>, NoLog, <<>>)
NoWorker == [state |-> "none", out |-> NoOut]

InitOn(disks) ==
    /\ disk \in disks
    /\ checks \in BOOLEAN
    /\ phase = "starting"
    /\ CONFIG = Uninit
    /\ GEOIP = Uninit
    /\ arrived = 0
    /\ pc = [r \in Reqs |-> "idle"]
    /\ req = [r \in Reqs |-> NoReq]
    /\ lookup = [r \in Reqs |-> NoLookup]
    /\ location = [r \in Reqs |-> <<>>]
    /\ permits = RenderPermits
    /\ waiters = <<>>
    /\ holds = [r \in Reqs |-> FALSE]
    /\ worker = [r \in Reqs |-> NoWorker]
    /\ resp = [r \in Reqs |-> NoResponse]

Init == InitOn(DiskStates)

\* ---------------------------------------------------------------- actions

\* main: announce, build the routes, bind the listener (main.rs:52-99).
\* Neither CONFIG nor GEOIP is dereferenced on the way.
StartServer ==
    /\ phase = "starting"
    /\ phase' = "serving"
    /\ UNCHANGED <<disk, checks, CONFIG, GEOIP, arrived, pc, req, lookup, location,
                   permits, waiters, holds, worker, resp>>

\* spawn_blocking at main.rs:227: the closure is handed to the blocking pool,
\* which runs it on a thread of its own; the closure counts as executing from
\* here until it returns or panics
Spawned == [state |-> "running", out |-> NoOut]

\* The HTTP layer accepts GET /ads/<image_name> and polls fake_advert_handler
\* for the first time.  The handler runs without suspension up to the reply
\* (main.rs:109-147) or up to its first pending await: acquire() at
\* main.rs:222-224 or, when a permit is free, the JoinHandle at main.rs:227-228.
\* A panic while forcing CONFIG or GEOIP unwinds the connection task: the
\* request gets no reply.
AcceptRequest(r, image_name, has_addr, res) ==
    LET config == LazyForce(CONFIG, load_config(disk))
        known == config.state = "init" /\ image_name \in DOMAIN config.value
        resolving == known /\ has_addr
        geoip == IF resolving THEN LazyForce(GEOIP, load_geoip_db(disk)) ELSE GEOIP
        resolved == resolving /\ geoip.state = "init"
        admitted == resolved /\ permits > 0 /\ waiters = <<>>
    IN  /\ phase = "serving"
        /\ r = arrived + 1
        /\ r \in Reqs
        /\ arrived' = r
        /\ req' = [req EXCEPT ![r] = [image_name |-> image_name, has_addr |-> has_addr]]
        /\ CONFIG' = config
        /\ GEOIP' = geoip
        /\ lookup' = [lookup EXCEPT ![r] = IF resolved THEN res ELSE NoLookup]
        /\ location' = [location EXCEPT ![r] =
                            IF resolved THEN get_city_from_ip(res) ELSE <<>>]
        /\ permits' = IF admitted THEN permits - 1 ELSE permits
        /\ holds' = [holds EXCEPT ![r] = admitted]
        /\ worker' = [worker EXCEPT ![r] = IF admitted THEN Spawned ELSE NoWorker]
        /\ waiters' = IF resolved /\ ~admitted THEN Append(waiters, r) ELSE waiters
        /\ resp' = [resp EXCEPT ![r] =
                        IF config.state # "init" \/ resolving THEN NoResponse
                        ELSE IF ~known THEN NotFoundReply
                        ELSE NoAddressReply(config.value[image_name])]
        /\ pc' = [pc EXCEPT ![r] =
                        IF config.state # "init" THEN "panicked"
                        ELSE IF ~resolving THEN "done"
                        ELSE IF ~resolved THEN "panicked"
                        ELSE IF admitted THEN "rendering"
                        ELSE "waiting"]
        /\ UNCHANGED <<disk, checks, phase>>

AcquirePermitEager(r) ==
    /\ pc[r] = "waiting"
    /\ waiters # <<>>
    /\ Head(waiters) = r
    /\ waiters' = Tail(waiters)
    /\ worker' = [worker EXCEPT ![r] = Spawned]
    /\ pc' = [pc EXCEPT ![r] = "rendering"]
    /\ UNCHANGED <<disk, checks, phase, CONFIG, GEOIP, arrived, req, lookup, location,
                   resp, permits, holds>>

\* acquire() completes for the request at the head of the wait queue
\* (main.rs:222-225); the same poll goes on to spawn_blocking (main.rs:227)
\* and suspends on the JoinHandle.
AcquirePermit(r) ==
    /\ pc[r] = "waiting"
    /\ waiters # <<>>
    /\ Head(waiters) = r
    /\ permits > 0
    /\ permits' = permits - 1
    /\ waiters' = Tail(waiters)
    /\ holds' = [holds EXCEPT ![r] = TRUE]
    /\ worker' = [worker EXCEPT ![r] = Spawned]
    /\ pc' = [pc EXCEPT ![r] = "rendering"]
    /\ UNCHANGED <<disk, checks, phase, CONFIG, GEOIP, arrived, req, lookup, location,
                   resp>>

\* main.rs:237: the compositor draws on a clone of advert.image, so the
\* templates are what they were once it has run
DrawnInPlace(config, image_name, out) ==
    IF out.ink = <<>> THEN config
    ELSE [config EXCEPT !.value[image_name].image.px = "drawn"]

KeepsLastText(config, image_name, out) ==
    IF out.ink = <<>> THEN config
    ELSE [config EXCEPT !.value[image_name].text_prefix = out.ink[1].text]

TemplatesAfterRender(config, image_name, out) == config

\* render_location_to_image_sync returns or panics on the blocking thread
WorkerFinish(r) ==
    /\ worker[r].state = "running"
    /\ CONFIG' = TemplatesAfterRender(
                    CONFIG, req[r].image_name,
                    render_location_to_image_sync(
                        CONFIG.value[req[r].image_name], location[r], checks))
    /\ worker' = [worker EXCEPT ![r] =
                    [state |-> "returned",
                     out |-> render_location_to_image_sync(
                                 CONFIG.value[req[r].image_name], location[r], checks)]]
    /\ UNCHANGED <<disk, checks, phase, GEOIP, arrived, pc, req, lookup,
                   location, permits, waiters, holds, resp>>

\* main.rs:230: drop(render_permit) returns the permit to the gate
PermitsAfterForget(r) == permits

PermitsAfterRelease(r) == permits + 1

\* the JoinHandle is ready: the handler resumes at main.rs:228, drops the
\* permit (main.rs:230), returns the result and builds the reply
\* (main.rs:113-136)
CompleteRequestRetry(r) ==
    /\ pc[r] = "rendering"
    /\ worker[r].state = "returned"
    /\ IF worker[r].out.kind = "Ok"
       THEN /\ permits' = PermitsAfterRelease(r)
            /\ holds' = [holds EXCEPT ![r] = FALSE]
            /\ resp' = [resp EXCEPT ![r] =
                            RenderedReply(CONFIG.value[req[r].image_name],
                                          JoinResult(worker[r].out))]
            /\ pc' = [pc EXCEPT ![r] = "done"]
            /\ UNCHANGED worker
       ELSE /\ worker' = [worker EXCEPT ![r] = Spawned]
            /\ UNCHANGED <<permits, holds, resp, pc>>
    /\ UNCHANGED <<disk, checks, phase, CONFIG, GEOIP, arrived, req, lookup, location,
                   waiters>>

CompleteRequest(r) ==
    /\ pc[r] = "rendering"
    /\ worker[r].state = "returned"
    /\ permits' = PermitsAfterRelease(r)
    /\ holds' = [holds EXCEPT ![r] = FALSE]
    /\ resp' = [resp EXCEPT ![r] =
                    RenderedReply(CONFIG.value[req[r].image_name],
                                  JoinResult(worker[r].out))]
    /\ pc' = [pc EXCEPT ![r] = "done"]
    /\ UNCHANGED <<disk, checks, phase, CONFIG, GEOIP, arrived, req, lookup, location,
                   waiters, worker>>

\* what dropping the handler future does to the gate: an Acquire future
\* leaves the wait queue, a live render_permit (a local of
\* render_location_to_image, main.rs:222) is dropped and so released.  The
\* dropped JoinHandle detaches the blocking task, which runs on.
PermitsAfterDropKeeping(r) == permits

PermitsAfterDrop(r) == IF holds[r] THEN permits + 1 ELSE permits

WaitersAfterDropStale(r) == waiters

WaitersAfterDrop(r) == SelectSeq(waiters, LAMBDA w : w # r)

\* the HTTP layer drops the handler future while it is suspended at an await
\* (the connection went away)
Teardown(r) ==
    /\ pc[r] \in {"waiting", "rendering"}
    /\ pc' = [pc EXCEPT ![r] = "torn"]
    /\ waiters' = WaitersAfterDrop(r)
    /\ permits' = PermitsAfterDrop(r)
    /\ holds' = [holds EXCEPT ![r] = FALSE]
    /\ UNCHANGED <<disk, checks, phase, CONFIG, GEOIP, arrived, req, lookup, location,
                   worker, resp>>

\* the requests of the concurrent specification: one input per way through
\* the handler
Input(image_name, has_addr, res) ==
    [image_name |-> image_name, has_addr |-> has_addr, res |-> res]
RomeRecord == LookupOk(Some([city |-> Some([names |-> Some(<<[lang |-> "en", name |-> Rome]>>)])]))
Inputs ==
    { Input("nope", TRUE, LookupErr), Input("nope", FALSE, LookupErr),
      Input("png", FALSE, LookupErr),
      Input("png", TRUE, RomeRecord),
      Input("jpg", TRUE, RomeRecord),
      Input("jpg", TRUE, LookupErr),
      Input("raw", TRUE, LookupErr) }

Next ==
    \/ StartServer
    \/ \E r \in 1..NReq, i \in Inputs : AcceptRequest(r, i.image_name, i.has_addr, i.res)
    \/ \E r \in Reqs : AcquirePermit(r)
    \/ \E r \in Reqs : WorkerFinish(r)
    \/ \E r \in Reqs : CompleteRequest(r)
    \/ \E r \in Reqs : Teardown(r)

Spec == Init /\ [][Next]_vars

\* one request on its own, over every image name, with and without a remote
\* address, and every lookup outcome
NextSolo ==
    \/ StartServer
    \/ \E image_name \in ImageNames, has_addr \in BOOLEAN, res \in LookupResults :
          AcceptRequest(1, image_name, has_addr, res)
    \/ WorkerFinish(1)
    \/ CompleteRequest(1)
    \/ Teardown(1)

SpecSolo == Init /\ [][NextSolo]_vars

\* ------------------------------------------------------------- the gate

Executing == {r \in Reqs : worker[r].state = "running"}
Holding == {r \in Reqs : holds[r]}
Guarded == {r \in Reqs : pc[r] = "rendering"}

\* C1: in every reachable state at most 2 compositor invocations are
\* executing, a worker that outlives its torn-down request included.
GateInvariant == Cardinality(Executing) <= RenderPermits

\* C2: a request torn down while its worker is still running keeps its
\* permit until that worker has returned; teardown does not give the permit
\* back to the gate.
PermitHeldUntilWorkerExit ==
    \A r \in Reqs : pc[r] = "torn" /\ worker[r].state = "running" => holds[r]

\* C3: every acquired permit is returned exactly once on every exit path:
\* available + held = 2, available never exceeds 2, and with no request
\* between acquire and release both permits are available.
GuaranteedRelease ==
    /\ permits + Cardinality(Holding) = RenderPermits
    /\ permits \in 0..RenderPermits
    /\ Holding = Guarded
    /\ (Guarded = {} => permits = RenderPermits)

\* C3 witness: requests have left the guarded section by every exit path
\* (bytes, encode error, worker panic, teardown) and the gate is whole again
GuaranteedReleaseWitness ==
    /\ permits = RenderPermits
    /\ \E r \in Reqs : pc[r] = "torn" /\ worker[r].state # "none"
    /\ \E r \in Reqs : pc[r] = "done" /\ worker[r].out.kind \in {"Err", "Panic"}
    /\ \E r \in Reqs : pc[r] = "done" /\ worker[r].out.kind = "Ok"

\* ---------------------------------------------------------------- startup

\* C4: the listener is bound only after every configured template has been
\* loaded; a process whose config or templates fail to load never serves.
TemplatesLoadedBeforeServing == phase = "serving" => CONFIG.state = "init"

\* ------------------------------------------------------------ the handler

Accepted == {r \in Reqs : pc[r] # "idle"}
Loaded == CONFIG.state = "init"
Configured(r) == Loaded /\ req[r].image_name \in DOMAIN CONFIG.value
\* the request has been through the gate: a worker was spawned for it
Admitted(r) == worker[r].state # "none"
InGate(r) == holds[r] \/ Admitted(r) \/ \E k \in 1..Len(waiters) : waiters[k] = r

\* C5: a request for a name that is not a key of the template set is
\* answered 404 with a non-empty plain-text body, with or without a client
\* address; it acquires no permit and starts no compositor.
NotFound404 ==
    \A r \in Accepted :
        Loaded /\ req[r].image_name \notin DOMAIN CONFIG.value =>
            /\ pc[r] = "done"
            /\ resp[r].status = 404
            /\ resp[r].content_type = "text/plain; charset=utf-8"
            /\ resp[r].text # <<>>
            /\ resp[r].image = NoBytes
            /\ ~InGate(r)

\* C5 witness: unknown names were requested with and without an address
NotFound404Witness ==
    \E r, q \in Accepted :
        /\ req[r].image_name = "nope" /\ req[r].has_addr /\ resp[r].status = 404
        /\ req[q].image_name = "nope" /\ ~req[q].has_addr /\ resp[q].status = 404

NoAddressState ==
    \A r \in Accepted :
        Configured(r) /\ ~req[r].has_addr =>
            /\ pc[r] = "done"
            /\ resp[r].status = 500
            /\ resp[r].content_type = "text/plain; charset=utf-8"
            /\ resp[r].text = <<"no remote address">>
            /\ resp[r].image = NoBytes
            /\ lookup[r] = NoLookup
            /\ location[r] = <<>>
            /\ ~InGate(r)
NoAddressStep ==
    \A r \in Reqs :
        pc[r] = "idle" /\ pc'[r] # "idle" /\ ~req'[r].has_addr =>
            /\ permits' = permits
            /\ waiters' = waiters
            /\ holds' = holds
            /\ worker' = worker
            /\ GEOIP' = GEOIP

\* C6: a request for a configured name without a client address is answered
\* 500 "no remote address"; it resolves no location, acquires no permit,
\* starts no compositor and leaves the gate as it was.
NoAddress500 == []NoAddressState /\ [][NoAddressStep]_vars

\* C6 witness: the 500 was given while another request held a permit
NoAddress500Witness ==
    \E r, q \in Accepted :
        /\ Configured(r) /\ ~req[r].has_addr /\ pc[r] = "done"
        /\ q < r /\ holds[q]

\* C7: a 200 is given exactly when the gate was acquired and the compositor
\* returned bytes; its body is those bytes and its Content-Type is image/png
\* for a Png template and image/jpeg for a Jpeg template.
Ok200 ==
    \A r \in Reqs :
        /\ resp[r].status = 200 <=>
              pc[r] = "done" /\ Admitted(r) /\ worker[r].out.kind = "Ok"
        /\ resp[r].status = 200 =>
              /\ Configured(r) /\ req[r].has_addr
              /\ worker[r].state = "returned"
              /\ resp[r].image = worker[r].out.bytes
              /\ resp[r].image # NoBytes
              /\ resp[r].text = <<>>
              /\ disk.defs[req[r].image_name].output_format = "Png"
                    => resp[r].content_type = "image/png"
              /\ disk.defs[req[r].image_name].output_format = "Jpeg"
                    => resp[r].content_type = "image/jpeg"

\* C7 witness: a Png and a Jpeg template have both been served
Ok200Witness ==
    \E r, q \in Reqs :
        /\ resp[r].status = 200 /\ resp[r].content_type = "image/png"
        /\ resp[q].status = 200 /\ resp[q].content_type = "image/jpeg"

\* the reply a request's own inputs call for, whatever else was in flight
RenderFailed(r) == pc[r] = "done" /\ worker[r].out.kind \in {"Err", "Panic"}
OwnOutcome(r) ==
    LET d == disk.defs[req[r].image_name]
        out == render_location_to_image_sync(AdvertOpen(d), get_city_from_ip(lookup[r]),
                                             checks)
    IN  /\ worker[r].state = "returned" => worker[r].out = out
        /\ pc[r] = "done" => (resp[r].status = 200 <=> out.kind = "Ok")
        /\ pc[r] = "done" /\ out.kind = "Ok" => resp[r].image = out.bytes

\* C8: a compositor error or a worker that fails to complete gives that
\* request a 500 with a plain-text description; the process keeps serving
\* and every other request gets the outcome its own inputs call for.
RenderFailureContained ==
    /\ \A r \in Reqs :
          RenderFailed(r) =>
            /\ resp[r].status = 500
            /\ resp[r].content_type = "text/plain; charset=utf-8"
            /\ resp[r].image = NoBytes
            /\ Len(resp[r].text) > 1
            /\ resp[r].text[1] = "Error encoding image: "
            /\ worker[r].out.kind = "Panic" =>
                  resp[r].text[3] = "image render task failed to complete"
            /\ worker[r].out.kind = "Err" =>
                  SubSeq(resp[r].text, 3, Len(resp[r].text) - 1) = worker[r].out.msg
            /\ ~holds[r]
    /\ (\E r \in Reqs : RenderFailed(r)) =>
            /\ phase = "serving"
            /\ CONFIG.state = "init"
            /\ GEOIP.state = "init"
    /\ \A r \in Reqs : Admitted(r) => OwnOutcome(r)

\* C8 witness: a panicked worker and an encode error were both answered, and
\* a request accepted after them was served its image
RenderFailureWitness ==
    \E a, b, c \in Reqs :
        /\ pc[a] = "done" /\ worker[a].out.kind = "Panic"
        /\ pc[b] = "done" /\ worker[b].out.kind = "Err"
        /\ a < c /\ b < c /\ resp[c].status = 200

\* ---------------------------------------------------------- the compositor

\* one advert "ad" whose definition ranges over the layout cases, requested
\* once with a client address
RenderDefinitions ==
    [image : {[file |-> "png", color |-> c, px |-> "base"] : c \in {"Rgb8", "Rgba8", "Rgb16"}},
     image_width : {300},
     image_height : {250, I32Max},
     frames : {0, 1, 2},
     text_align : {"Left", "Center"},
     text_x : {0, 5, 150, I32Max},
     text_y : {200, I32Max},
     text_color : {<<255, 255, 255, 255>>},
     text_scale : {0, 1, 20, I32Max \div 8 + 1},
     text_case : {"Default", "Upper"},
     output_format : {"Png", "Jpeg"},
     text_prefix : {<<"i", "n", " ">>}]

RenderDisks ==
    {[config |-> "ok", defs |-> [n \in {"ad"} |-> d], geoip |-> "ok"] :
        d \in RenderDefinitions}
InitRender == InitOn(RenderDisks)

NextRender ==
    \/ StartServer
    \/ \E res \in {LookupErr, RomeRecord} : AcceptRequest(1, "ad", TRUE, res)
    \/ WorkerFinish(1)
    \/ CompleteRequest(1)
    \/ Teardown(1)

SpecRender == InitRender /\ [][NextRender]_vars

\* C9: with Center alignment the draw x is text_x - width/2 clamped to 0 and
\* never negative, for every text_x >= 0 and measured width >= 0; with Left
\* alignment the draw x is text_x.
AlignmentInvariant ==
    \A r \in Reqs :
        worker[r].state = "returned" =>
            \A k \in 1..Len(worker[r].out.ink) :
                LET advert == disk.defs[req[r].image_name]
                    x == worker[r].out.ink[k].x
                    width == TextSize(advert.text_scale, worker[r].out.ink[k].text)
                    centred == advert.text_x - (width \div 2)
                IN  /\ advert.text_align = "Center" =>
                          x >= 0 /\ x = IF centred < 0 THEN 0 ELSE centred
                    /\ advert.text_align = "Left" => x = advert.text_x

\* ------------------------------------------------------ location lookup

\* what the lookup outcome of a request calls for, case by case
NoUsableName(res) ==
    \/ res.tag = "Err"
    \/ res.val = <<>>
    \/ res.val[1].city = <<>>
    \/ res.val[1].city[1].names = <<>>
    \/ res.val[1].city[1].names[1] = <<>>
Resolved == {r \in Reqs : lookup[r].tag # "none"}

\* C10: a lookup that errors, finds no record, no city, no names or an empty
\* names map resolves to exactly "your area", any other to the first entry
\* of the names map; the resolution never answers the request itself: a
\* request that is not served its image after a lookup was refused by the
\* compositor.
FallbackInvariant ==
    \A r \in Resolved :
        /\ NoUsableName(lookup[r]) =>
              location[r] = <<"y", "o", "u", "r", " ", "a", "r", "e", "a">>
        /\ ~NoUsableName(lookup[r]) =>
              location[r] = lookup[r].val[1].city[1].names[1][1].name
        /\ pc[r] \in {"waiting", "rendering", "torn", "done"}
        /\ InGate(r) \/ pc[r] \in {"torn", "done"}
        /\ pc[r] = "done" /\ resp[r].status # 200 =>
              /\ worker[r].out.kind \in {"Err", "Panic"}
              /\ resp[r].text[1] = "Error encoding image: "

\* C10 witness: a lookup that found an empty names map was served an image
\* drawn with the fallback
FallbackWitness ==
    \E r \in Resolved :
        /\ lookup[r] = LookupOk(Some([city |-> Some([names |-> Some(<<>>)])]))
        /\ location[r] = <<"y", "o", "u", "r", " ", "a", "r", "e", "a">>
        /\ resp[r].status = 200
        /\ worker[r].out.ink # <<>>
        /\ worker[r].out.ink[1].text =
              <<"i", "n", " ", "Y", "O", "U", "R", " ", "A", "R", "E", "A">>

\* ------------------------------------------------------------- templates

Returned == {r \in Reqs : worker[r].state = "returned"}
\* the ink of request r is its own display text: the prefix, then its own
\* location, letter for letter in either case
OwnInk(r) ==
    LET prefix == disk.defs[req[r].image_name].text_prefix
    IN  \A k \in 1..Len(worker[r].out.ink) :
            LET text == worker[r].out.ink[k].text
            IN  /\ Len(text) = Len(prefix) + Len(location[r])
                /\ SubSeq(text, 1, Len(prefix)) = prefix
                /\ \A i \in 1..Len(location[r]) :
                      text[Len(prefix) + i] \in {location[r][i], CharToUpper(location[r][i])}

\* C11: no sequence of requests changes a template: every Template, its base
\* pixel buffer included, equals its value at load time, and a compositor
\* invocation draws only its own request's text on its own copy of the base.
TemplatesImmutable ==
    /\ Loaded =>
          /\ DOMAIN CONFIG.value = DOMAIN disk.defs
          /\ \A n \in DOMAIN CONFIG.value :
                /\ CONFIG.value[n] = AdvertOpen(disk.defs[n])
                /\ CONFIG.value[n].image.px = "base"
    /\ \A r \in Returned :
          /\ OwnInk(r)
          /\ worker[r].out.kind = "Ok" =>
                /\ worker[r].out.bytes.px = "base"
                /\ worker[r].out.bytes.ink = worker[r].out.ink

\* C11 witness: a compositor has drawn for one request while another is
\* still drawing on the same template, and a third was torn down
TemplatesImmutableWitness ==
    \E r, q, t \in Reqs :
        /\ r # q /\ req[r].image_name = req[q].image_name
        /\ worker[r].state = "returned" /\ worker[r].out.ink # <<>>
        /\ worker[q].state = "running"
        /\ pc[t] = "torn" /\ worker[t].state # "none"

AlphaColors == {"La8", "Rgba8", "La16", "Rgba16"}
\* the compositor of request r got as far as the encoder
ReachedEncoder(r) ==
    /\ worker[r].state = "returned"
    /\ worker[r].out.kind # "Panic"

\* C13: the pixel buffer is converted to 3 channels before encoding exactly
\* when the source has an alpha channel and the output format is Jpeg;
\* otherwise it is encoded with its channels unchanged.  Jpeg output of an
\* alpha source never carries an alpha channel.
AlphaInvariant ==
    \A r \in Reqs :
        ReachedEncoder(r) =>
            LET source == disk.defs[req[r].image_name].image.color
                format == disk.defs[req[r].image_name].output_format
                out == worker[r].out
            IN  /\ source \in AlphaColors /\ format = "Jpeg" =>
                      /\ out.kind = "Ok"
                      /\ out.bytes.color = "Rgb8"
                      /\ out.bytes.codec = "Jpeg"
                /\ out.kind = "Ok" /\ ~(source \in AlphaColors /\ format = "Jpeg") =>
                      out.bytes.color = source
                /\ out.kind = "Ok" /\ format = "Jpeg" =>
                      out.bytes.color \notin AlphaColors

\* C13 witness: an RGBA source was encoded as Jpeg and the reply was given
AlphaInvariantWitness ==
    \E r \in Reqs :
        /\ ReachedEncoder(r) /\ pc[r] = "done" /\ resp[r].status = 200
        /\ disk.defs[req[r].image_name].image.color = "Rgba8"
        /\ disk.defs[req[r].image_name].output_format = "Jpeg"
        /\ worker[r].out.bytes.color = "Rgb8"

\* ----------------------------------------------------------------- case

LowercaseAscii == {"a", "e", "m", "o", "r", "u", "y"}
IsUppercaseOf(u, c) ==
    \/ c \notin LowercaseAscii /\ u = c
    \/ <<c, u>> \in {<<"a", "A">>, <<"e", "E">>, <<"m", "M">>, <<"o", "O">>,
                     <<"r", "R">>, <<"u", "U">>, <<"y", "Y">>}

\* C14: with Case::Upper the drawn string is text_prefix, unchanged, followed
\* by the uppercase form of the location, so no lowercase ASCII letter of the
\* location appears in it; with Case::Default it is text_prefix followed by
\* the location verbatim.
CaseInvariant ==
    \A r \in Returned :
        \A k \in 1..Len(worker[r].out.ink) :
            LET definition == disk.defs[req[r].image_name]
                prefix == definition.text_prefix
                text == worker[r].out.ink[k].text
                drawn == SubSeq(text, Len(prefix) + 1, Len(text))
            IN  /\ Len(text) = Len(prefix) + Len(location[r])
                /\ SubSeq(text, 1, Len(prefix)) = prefix
                /\ definition.text_case = "Default" => drawn = location[r]
                /\ definition.text_case = "Upper" =>
                      \A i \in 1..Len(drawn) :
                          /\ drawn[i] \notin LowercaseAscii
                          /\ IsUppercaseOf(drawn[i], location[r][i])

\* C14 witness: an Upper template drew the fallback location in capitals
CaseInvariantWitness ==
    \E r \in Returned :
        /\ disk.defs[req[r].image_name].text_case = "Upper"
        /\ location[r] = DEFAULT_CITY
        /\ worker[r].out.ink # <<>>
        /\ worker[r].out.ink[1].text =
              <<"i", "n", " ", "Y", "O", "U", "R", " ", "A", "R", "E", "A">>

\* -------------------------------------------------- compositor arithmetic

\* the measured width of request r's display text fitted the i32, so its
\* compositor went on to the overflow diagnostic
WidthFits(r) ==
    /\ worker[r].state = "returned"
    /\ LET advert == disk.defs[req[r].image_name]
       IN  TextSize(advert.text_scale,
                    advert.text_prefix \o CaseTransform(advert.text_case, location[r]))
              <= I32Max
\* request r's compositor got past the diagnostic, to the frame loop
ReachedFrameLoop(r) ==
    /\ WidthFits(r)
    /\ worker[r].out.log # NoLog

\* C17: for every frame index k in 0..frame_count the text is drawn once at
\* (x, text_y + k * image_height), frame_count draws in increasing k, and no
\* combination of text_y, image_height and frame_count representable in i32
\* makes the request be rejected, also when text_y + k * image_height
\* exceeds the i32 range.
FrameLoop ==
    \A r \in Reqs :
        ReachedFrameLoop(r) =>
            LET advert == disk.defs[req[r].image_name]
                ink == worker[r].out.ink
            IN  /\ worker[r].out.kind # "Panic"
                /\ Len(ink) = advert.frames
                /\ \A k \in 1..Len(ink) :
                      /\ ink[k].x = ink[1].x
                      /\ InI32(advert.text_y + (k - 1) * advert.image_height) =>
                            ink[k].y = advert.text_y + (k - 1) * advert.image_height

\* C18: the overflow diagnostic only selects the log line: evaluating
\* x + measured_width never fails the request, and the draws and the result
\* do not depend on the branch taken.
DiagnosticOnly ==
    \A r \in Reqs :
        WidthFits(r) =>
            /\ worker[r].out.log.line \in {"hit", "hit, overflowed by"}
            /\ worker[r].out.msg # <<"attempt to add with overflow">>
            /\ \A k \in 1..Len(worker[r].out.ink) :
                  worker[r].out.ink[k].text =
                      DisplayText(CONFIG.value[req[r].image_name], location[r])

\* ------------------------------------------------------ request life cycle

Terminal == {"done", "torn", "panicked"}
NoRetriesState ==
    \A r \in Accepted :
        /\ pc[r] = "done" =>
              /\ resp[r].status \in {200, 404, 500}
              /\ ~holds[r]
        /\ pc[r] # "done" => resp[r] = NoResponse
        /\ pc[r] \in Terminal => ~holds[r]
NoRetriesStep ==
    \A r \in Reqs :
        /\ pc[r] \in Terminal => pc'[r] = pc[r] /\ resp'[r] = resp[r]
        /\ resp[r] # NoResponse => resp'[r] = resp[r]
        \* one compositor invocation: a started worker is never started again
        /\ worker[r].state = "returned" => worker'[r] = worker[r]
        /\ worker[r].state = "running" => worker'[r].state # "none"
        \* one permit: a request that was admitted takes no further permit
        /\ Admitted(r) /\ ~holds[r] => ~holds'[r]
        /\ ~holds[r] /\ holds'[r] => pc[r] \in {"idle", "waiting"} /\ permits' = permits - 1

\* C16: every /ads request ends in one terminal outcome (404, 500 or 200)
\* and over its whole life acquires at most one permit and starts at most one
\* compositor invocation; a failed invocation is never re-run.
NoRetries == []NoRetriesState /\ [][NoRetriesStep]_vars

\* C16 witness: a compositor failed, its request was answered 500 and the
\* gate is idle again with the failed result still the only one
NoRetriesWitness ==
    \E r \in Accepted :
        /\ pc[r] = "done" /\ resp[r].status = 500
        /\ worker[r].state = "returned" /\ worker[r].out.kind # "Ok"
        /\ permits = RenderPermits /\ Executing = {}

AdmissionState ==
    \A r \in Reqs :
        /\ pc[r] = "waiting" =>
              /\ ~holds[r]
              /\ worker[r].state = "none"
              /\ Configured(r) /\ lookup[r] # NoLookup
              /\ \E k \in 1..Len(waiters) : waiters[k] = r
        /\ Admitted(r) =>
              /\ Configured(r) /\ req[r].has_addr
              /\ lookup[r] # NoLookup /\ location[r] = get_city_from_ip(lookup[r])
        /\ holds[r] => Admitted(r)
        /\ lookup[r] # NoLookup => Configured(r)
AdmissionStep ==
    \A r \in Reqs :
        worker[r].state = "none" /\ worker'[r].state # "none" =>
            /\ permits > 0 /\ permits' = permits - 1
            /\ ~holds[r] /\ holds'[r]
            /\ lookup'[r] # NoLookup
            /\ pc'[r] = "rendering"

\* C19: within one request the order is template lookup, location
\* resolution, permit acquisition, worker start; a compositor starts only
\* after its own request was granted a permit, and a request still waiting
\* in acquire() holds no permit and has started no worker.
AdmissionOrdering == []AdmissionState /\ [][AdmissionStep]_vars

\* C19 witness: a request waits in acquire() with its location resolved
\* while both permits are out, and an earlier waiter has been admitted
AdmissionOrderingWitness ==
    \E r, q \in Reqs :
        /\ pc[r] = "waiting" /\ location[r] # <<>> /\ permits = 0
        /\ q # r /\ holds[q] /\ worker[q].state = "running"

\* ------------------------------------------------------- the wait queue

\* NQueue requests for the same image against a good installation, so that
\* requests queue up behind one another in acquire()
QueueInputs == {Input("png", TRUE, RomeRecord)}
InitQueue == InitOn({[config |-> "ok", defs |-> GoodDefs, geoip |-> "ok"]})
NextQueue ==
    \/ StartServer
    \/ \E r \in Reqs, i \in QueueInputs : AcceptRequest(r, i.image_name, i.has_addr, i.res)
    \/ \E r \in Reqs : AcquirePermit(r)
    \/ \E r \in Reqs : WorkerFinish(r)
    \/ \E r \in Reqs : CompleteRequest(r)
    \/ \E r \in Reqs : Teardown(r)
SpecQueue == InitQueue /\ [][NextQueue]_vars

\* The runtime polls a handler whose wake-up has fired (a granted acquire(),
\* a finished JoinHandle) and every started worker returns; when a client
\* connects or goes away is up to the client.
FairQueue ==
    /\ SpecQueue
    /\ \A r \in Reqs : WF_vars(AcquirePermit(r))
    /\ \A r \in Reqs : WF_vars(WorkerFinish(r))
    /\ \A r \in Reqs : WF_vars(CompleteRequest(r))

\* no request is suspended in acquire() or on its worker
Quiescent == \A r \in Reqs : pc[r] \notin {"waiting", "rendering"}
\* a request leaves acquire() by being granted a permit, or by teardown
GrantedOrTorn ==
    \A r \in Reqs :
        pc[r] = "waiting" /\ pc'[r] # "waiting" =>
            \/ holds'[r] /\ pc'[r] = "rendering"
            \/ pc'[r] = "torn"

\* C15: with every started worker returning and fair scheduling, every
\* request suspended in acquire() is eventually granted a permit and every
\* /ads request eventually reaches a terminal response, unless its client
\* goes away first; the gate does not deadlock and no waiter is starved.
\* Requests being finitely many and terminal states final, this is: again
\* and again no request is left suspended, and the only ways out of
\* acquire() are the grant and the teardown.
GateLiveness == []<>Quiescent /\ [][GrantedOrTorn]_vars

\* C15 witness: the last request waits at the end of a queue of two with
\* both permits out
GateLivenessWitness ==
    /\ permits = 0
    /\ Len(waiters) >= 2
    /\ pc[waiters[Len(waiters)]] = "waiting"
    /\ Cardinality(Holding) = RenderPermits

QueuedTeardownState ==
    /\ \A k \in 1..Len(waiters) : pc[waiters[k]] = "waiting"
    /\ \A r \in Reqs :
          pc[r] = "torn" /\ worker[r].state = "none" =>
              /\ ~holds[r]
              /\ resp[r] = NoResponse
    /\ permits > 0 /\ waiters # <<>> => ENABLED AcquirePermit(Head(waiters))
    /\ permits <= RenderPermits
QueuedTeardownStep ==
    \A r \in Reqs :
        pc[r] = "waiting" /\ pc'[r] = "torn" =>
            /\ permits' = permits
            /\ holds' = holds
            /\ worker' = worker
            /\ \E k \in 1..Len(waiters) :
                  /\ waiters[k] = r
                  /\ waiters' = SubSeq(waiters, 1, k - 1) \o
                                SubSeq(waiters, k + 1, Len(waiters))

\* C20: a request torn down while suspended in acquire() leaves the wait
\* queue without being granted a permit and without starting a worker; the
\* number of permits is unchanged by it, and the requests queued behind it
\* are still admitted when permits free up.
QueuedTeardown == []QueuedTeardownState /\ [][QueuedTeardownStep]_vars

\* C20 witness: a request was torn down in the queue, and a request that
\* came after it has been admitted once an earlier one was done
QueuedTeardownWitness ==
    \E p, r, q \in Reqs :
        /\ p < r /\ r < q
        /\ pc[p] = "done"
        /\ pc[r] = "torn" /\ worker[r].state = "none"
        /\ holds[q] /\ worker[q].state = "running"

====
